---------------------------- MODULE Spec2Model ----------------------------
(***************************************************************************)
(* A model of word_counter.py: the Cleaner (clean_latex), the word count   *)
(* (count_words) and the Sectional Counter (parse_and_count with           *)
(* print_results).                                                         *)
(*                                                                         *)
(* A text is a sequence of lexemes.  A lexeme is either one punctuation    *)
(* or whitespace character ("\\", "%", "{", "}", "[", "]", "$", "*", "^",  *)
(* " ", "\n") or one run of letters ("section", "begin", "w", ...).  The   *)
(* regular expressions of the source are translated lexeme by lexeme: a    *)
(* literal keyword is one letter lexeme, [a-zA-Z]+ is a run of letter      *)
(* lexemes.  No keyword of the source can arise by joining two of the      *)
(* letter lexemes used here, so matching on lexemes is matching on         *)
(* characters.                                                             *)
(***************************************************************************)
EXTENDS Integers, Sequences, FiniteSets, TLC

VARIABLES
    content,    \* the argument of the running function (clean_latex or parse_and_count)
    text,       \* clean_latex: the local `content`, rewritten by every statement
    first,      \* the value returned by the first call of clean_latex
    round,      \* which call of clean_latex is running (1 or 2)
    sections,   \* parse_and_count: the list returned by re.split
    i,          \* parse_and_count: the index of the section loop
    intro,      \* parse_and_count: the values section_intro_word_count took, one per section processed
    results,    \* parse_and_count: the results dict
    out,        \* the lines printed to stdout
    pc          \* the statement about to run

vars == <<content, text, first, round, sections, i, intro, results, out, pc>>

---------------------------------------------------------------------------
(* Lexemes *)

BS == "\\"
NL == "\n"

\* [a-zA-Z]+ : the letter runs that occur in the texts of this model.
Letters ==
    {"section", "subsection", "documentclass", "begin", "end",
     "equation", "figure", "table", "tabular", "thebibliography", "verbatim",
     "tikzpicture", "cmd", "opt", "arg",
     "w", "a", "b", "T", "U", "V",
     "Intro", "Hello", "world", "Background", "Some", "background", "text", "here"}

\* str.split() and str.strip() without arguments: the whitespace characters.
Whitespace == {" ", NL}

---------------------------------------------------------------------------
(* Sequence helpers *)

Min(S) == CHOOSE m \in S : \A n \in S : m <= n

Range(s) == {s[k] : k \in 1..Len(s)}

\* s[a..b], empty when b < a.
Slice(s, a, b) == IF b < a THEN <<>> ELSE SubSeq(s, a, b)

\* The literal pat occurs in s at position j.
HasAt(s, j, pat) ==
    /\ j >= 1
    /\ j + Len(pat) - 1 <= Len(s)
    /\ \A k \in 1..Len(pat) : s[j + k - 1] = pat[k]

\* The first position >= from at which the literal pat occurs in s, or 0.
FindFrom(s, pat, from) ==
    LET C == {j \in from..Len(s) : HasAt(s, j, pat)}
    IN  IF C = {} THEN 0 ELSE Min(C)

\* `sub in s` of Python.
Contains(s, sub) == FindFrom(s, sub, 1) > 0

RECURSIVE Flatten(_)
Flatten(ss) == IF ss = <<>> THEN <<>> ELSE Head(ss) \o Flatten(Tail(ss))

\* re.sub(pattern, '', s): ends[p] is the position after the match that starts at
\* p, or 0 when the pattern does not match at p.  Matches are taken leftmost
\* first and do not overlap.
RECURSIVE DeleteMatches(_, _, _)
DeleteMatches(s, ends, p) ==
    IF p > Len(s) THEN <<>>
    ELSE IF ends[p] > 0 THEN DeleteMatches(s, ends, ends[p])
    ELSE <<s[p]>> \o DeleteMatches(s, ends, p + 1)

ReSub(s, ends) == DeleteMatches(s, ends, 1)

\* open [\s\S]*? close at position p: the position after the match, or 0.
SpanEnd(s, p, open, close) ==
    IF HasAt(s, p, open)
    THEN LET j == FindFrom(s, close, p + Len(open))
         IN  IF j = 0 THEN 0 ELSE j + Len(close)
    ELSE 0

\* open .*? close at position p, where . matches no newline.
LineSpanEnd(s, p, open, close) ==
    LET e == SpanEnd(s, p, open, close)
    IN  IF e = 0 THEN 0
        ELSE IF \E k \in (p + Len(open))..(e - Len(close) - 1) : s[k] = NL THEN 0
        ELSE e

---------------------------------------------------------------------------
(* clean_latex, statement by statement *)

\* re.sub(r'%.*', '', content): from every % to the end of its line.
CommentEnd(s, p) ==
    IF s[p] = "%"
    THEN LET j == FindFrom(s, <<NL>>, p) IN IF j = 0 THEN Len(s) + 1 ELSE j
    ELSE 0

RemoveComments(s) == ReSub(s, [p \in 1..Len(s) |-> CommentEnd(s, p)])

environments_to_remove ==
    <<"equation", "figure", "table", "tabular", "thebibliography", "verbatim",
      "tikzpicture">>

BeginEnv(env) == <<BS, "begin", "{", env, "}">>
EndEnv(env) == <<BS, "end", "{", env, "}">>
BeginEnvStar(env) == <<BS, "begin", "{", env, "*", "}">>
EndEnvStar(env) == <<BS, "end", "{", env, "*", "}">>

\* RemoveEnvironment without the second re.sub of the loop body: the starred form
\* is forgotten.
RemoveEnvironmentPlainOnly(s, env) ==
    ReSub(s, [p \in 1..Len(s) |-> SpanEnd(s, p, BeginEnv(env), EndEnv(env))])

\* The body of the loop over environments_to_remove: the plain form, then the
\* starred form, each from a \begin to the first \end after it.
RemoveEnvironment(s, env) ==
    LET plain == ReSub(s, [p \in 1..Len(s) |->
                              SpanEnd(s, p, BeginEnv(env), EndEnv(env))])
    IN  ReSub(plain, [p \in 1..Len(plain) |->
                         SpanEnd(plain, p, BeginEnvStar(env), EndEnvStar(env))])

RECURSIVE RemoveEnvironmentsFrom(_, _)
RemoveEnvironmentsFrom(s, k) ==
    IF k > Len(environments_to_remove) THEN s
    ELSE RemoveEnvironmentsFrom(RemoveEnvironment(s, environments_to_remove[k]), k + 1)

RemoveEnvironments(s) == RemoveEnvironmentsFrom(s, 1)

\* $$...$$, then \[...\], then $...$ on one line.
RemoveMath(s) ==
    LET a == ReSub(s, [p \in 1..Len(s) |-> SpanEnd(s, p, <<"$", "$">>, <<"$", "$">>)])
        b == ReSub(a, [p \in 1..Len(a) |-> SpanEnd(a, p, <<BS, "[">>, <<BS, "]">>)])
    IN  ReSub(b, [p \in 1..Len(b) |-> LineSpanEnd(b, p, <<"$">>, <<"$">>)])

\* The position after the run of letters that starts at p (p itself when s[p]
\* is no letter).
RECURSIVE LettersEnd(_, _)
LettersEnd(s, p) ==
    IF p <= Len(s) /\ s[p] \in Letters THEN LettersEnd(s, p + 1) ELSE p

\* (?:\\[[^\]]*?\])? at position p.  In the source's raw string \\ is a literal
\* backslash and [[^\]] is the character class of "[", "^" and "]": the group
\* matches a backslash, then characters of that class up to the first "]".
OptionEnd(s, p) ==
    IF p <= Len(s) /\ s[p] = BS
    THEN LET j == FindFrom(s, <<"]">>, p + 1)
         IN  IF j > 0 /\ \A k \in (p + 1)..(j - 1) : s[k] \in {"[", "^", "]"}
             THEN j + 1 ELSE p
    ELSE p

\* (?:\{.*?\})? at position p.
ArgumentEnd(s, p) ==
    LET e == IF p <= Len(s) THEN LineSpanEnd(s, p, <<"{">>, <<"}">>) ELSE 0
    IN  IF e = 0 THEN p ELSE e

\* \\[a-zA-Z]+(?:\\[[^\]]*?\])?(?:\{.*?\})? at position p.
CommandArgsEnd(s, p) ==
    IF s[p] = BS /\ LettersEnd(s, p + 1) > p + 1
    THEN ArgumentEnd(s, OptionEnd(s, LettersEnd(s, p + 1)))
    ELSE 0

RemoveCommandsWithArgs(s) == ReSub(s, [p \in 1..Len(s) |-> CommandArgsEnd(s, p)])

\* \\[a-zA-Z]+ at position p.
CommandEnd(s, p) ==
    IF s[p] = BS /\ LettersEnd(s, p + 1) > p + 1 THEN LettersEnd(s, p + 1) ELSE 0

RemoveCommands(s) == ReSub(s, [p \in 1..Len(s) |-> CommandEnd(s, p)])

\* re.sub(r'[\{\}]', '', content)
RemoveBraces(s) == SelectSeq(s, LAMBDA ch : ch \notin {"{", "}"})

\* str.splitlines(): the lines without their line ends; a text that ends with
\* a newline has no empty last line.
RECURSIVE SplitLinesFrom(_, _, _)
SplitLinesFrom(s, start, p) ==
    IF p > Len(s)
    THEN IF start > Len(s) THEN <<>> ELSE <<Slice(s, start, Len(s))>>
    ELSE IF s[p] = NL
    THEN <<Slice(s, start, p - 1)>> \o SplitLinesFrom(s, p + 1, p + 1)
    ELSE SplitLinesFrom(s, start, p + 1)

SplitLines(s) == SplitLinesFrom(s, 1, 1)

\* str.strip()
RECURSIVE LStrip(_)
LStrip(s) == IF s # <<>> /\ Head(s) \in Whitespace THEN LStrip(Tail(s)) ELSE s

RECURSIVE RStrip(_)
RStrip(s) ==
    IF s # <<>> /\ s[Len(s)] \in Whitespace THEN RStrip(Slice(s, 1, Len(s) - 1)) ELSE s

Strip(s) == RStrip(LStrip(s))

\* "\n".join(lines)
RECURSIVE Join(_)
Join(lines) ==
    IF lines = <<>> THEN <<>>
    ELSE IF Len(lines) = 1 THEN lines[1]
    ELSE lines[1] \o <<NL>> \o Join(Tail(lines))

StripLines(s) ==
    LET lines == SplitLines(s)
    IN  Join([k \in 1..Len(lines) |-> Strip(lines[k])])

clean_latex(c) ==
    StripLines(RemoveBraces(RemoveCommands(RemoveCommandsWithArgs(
        RemoveMath(RemoveEnvironments(RemoveComments(c)))))))

\* str.split(): the maximal runs of characters that are not whitespace.
RECURSIVE SplitFrom(_, _, _)
SplitFrom(s, start, p) ==
    IF p > Len(s)
    THEN IF start > Len(s) THEN <<>> ELSE <<Slice(s, start, Len(s))>>
    ELSE IF s[p] \in Whitespace
    THEN (IF start < p THEN <<Slice(s, start, p - 1)>> ELSE <<>>)
         \o SplitFrom(s, p + 1, p + 1)
    ELSE SplitFrom(s, start, p + 1)

Split(s) == SplitFrom(s, 1, 1)

\* count_words with text.split(' ') for text.split(): every single space separates,
\* a newline does not.
count_words_by_spaces(t) == Cardinality({p \in 1..Len(t) : t[p] = " "}) + 1

count_words(t) == Len(Split(t))

---------------------------------------------------------------------------
(* parse_and_count and print_results *)

\* r'\section' in content or r'\subsection' in content or r'\documentclass' in content
is_latex(c) ==
    \/ Contains(c, <<BS, "section">>)
    \/ Contains(c, <<BS, "subsection">>)
    \/ Contains(c, <<BS, "documentclass">>)

\* \\section\*?{([^}]+)} (kw = "section") or \\subsection\*?{([^}]+)} at position
\* p: the position of the "{", or 0 when the pattern does not match at p.
HeaderBrace(s, p, kw) ==
    IF HasAt(s, p, <<BS, kw>>)
    THEN LET b == IF HasAt(s, p + 2, <<"*">>) THEN p + 3 ELSE p + 2
             c == FindFrom(s, <<"}">>, b + 1)
         IN  IF HasAt(s, b, <<"{">>) /\ c > b + 1 THEN b ELSE 0
    ELSE 0

\* The position after the match at p, or 0.
HeaderEnd(s, p, kw) ==
    IF HeaderBrace(s, p, kw) = 0 THEN 0
    ELSE FindFrom(s, <<"}">>, HeaderBrace(s, p, kw) + 1) + 1

\* group(1) of the match at p: the title, up to the first "}".
HeaderTitle(s, p, kw) == Slice(s, HeaderBrace(s, p, kw) + 1, HeaderEnd(s, p, kw) - 2)

\* re.split(r'(' + pattern + ')', s).  The pattern holds a group of its own, so
\* every match adds three items to the list: the text before it, then group 1
\* (the whole header) and group 2 (the title); the text after the last match ends
\* the list.
RECURSIVE ReSplitFrom(_, _, _, _)
ReSplitFrom(s, kw, start, p) ==
    IF p > Len(s) THEN <<Slice(s, start, Len(s))>>
    ELSE IF HeaderEnd(s, p, kw) > 0
    THEN <<Slice(s, start, p - 1), Slice(s, p, HeaderEnd(s, p, kw) - 1),
           HeaderTitle(s, p, kw)>>
         \o ReSplitFrom(s, kw, HeaderEnd(s, p, kw), HeaderEnd(s, p, kw))
    ELSE ReSplitFrom(s, kw, start, p + 1)

ReSplit(s, kw) == ReSplitFrom(s, kw, 1, 1)

\* re.search(pattern, s): the position of the first match, or 0 (None).
ReSearch(s, kw) ==
    LET M == {p \in 1..Len(s) : HeaderEnd(s, p, kw) > 0}
    IN  IF M = {} THEN 0 ELSE Min(M)

\* The list l of Python at index k (from 0).
At(l, k) == l[k + 1]

\* The body of the loop over range(1, len(subsections), 2), from index j on.
RECURSIVE SubsectionLoop(_, _, _)
SubsectionLoop(subsections, j, section_data) ==
    IF j >= Len(subsections) THEN section_data
    ELSE IF ReSearch(At(subsections, j), "subsection") = 0
    THEN SubsectionLoop(subsections, j + 2, section_data)
    ELSE LET subsection_title ==
                 HeaderTitle(At(subsections, j),
                             ReSearch(At(subsections, j), "subsection"), "subsection")
             subsection_word_count ==
                 count_words(clean_latex(At(subsections, j + 1)))
         IN  SubsectionLoop(subsections, j + 2,
                 IF subsection_word_count > 0
                 THEN [section_data EXCEPT
                         !.subsections = Append(@, [title |-> subsection_title,
                                                    word_count |-> subsection_word_count]),
                         !.word_count = @ + subsection_word_count]
                 ELSE section_data)

\* section_intro_word_count of the section whose content is section_content.
SectionIntroWordCount(section_content) ==
    count_words(clean_latex(At(ReSplit(section_content, "subsection"), 0)))

\* section_data when the section loop appends it.
SectionData(section_title, section_content) ==
    SubsectionLoop(ReSplit(section_content, "subsection"), 1,
        [title |-> section_title,
         word_count |-> SectionIntroWordCount(section_content),
         subsections |-> <<>>])

\* WithPreamble without the line that adds the preamble to total_words.
WithPreambleUncounted(res, preamble_word_count) ==
    IF preamble_word_count > 0
    THEN [res EXCEPT !.preamble = [word_count |-> preamble_word_count]]
    ELSE res

\* results after the preamble: an empty dict is the function with no key.
WithPreamble(res, preamble_word_count) ==
    IF preamble_word_count > 0
    THEN [res EXCEPT !.preamble = [word_count |-> preamble_word_count],
                     !.total_words = @ + preamble_word_count]
    ELSE res

\* results after a section.
WithSection(res, section_data) ==
    [res EXCEPT !.sections = Append(@, section_data),
                !.total_words = @ + section_data.word_count]

\* The lines print_results writes.
SubsectionLines(idx, subs) ==
    [j \in 1..Len(subs) |->
        <<"  - Subsection", idx, j, subs[j].title, subs[j].word_count, "words">>]

RECURSIVE SectionLines(_, _)
SectionLines(secs, idx) ==
    IF idx > Len(secs) THEN <<>>
    ELSE <<<<"- Section", idx, secs[idx].title, secs[idx].word_count, "words">>>>
         \o SubsectionLines(idx, secs[idx].subsections)
         \o SectionLines(secs, idx + 1)

print_results(res) ==
    <<<<"Total Word Count:", res.total_words>>, <<>>>>
    \o (IF DOMAIN res.preamble # {}
        THEN <<<<"- Preamble/Abstract:", res.preamble.word_count, "words">>>>
        ELSE <<>>)
    \o SectionLines(res.sections, 1)

---------------------------------------------------------------------------
(* Bounded inputs *)

MaxFragPieces == 3
MaxEnvPieces == 5
MaxDocPieces == 4

\* The texts made of at most n pieces of P.
TextsOf(P, n) == {Flatten(t) : t \in UNION {[1..k -> P] : k \in 0..n}}

\* Fragments handed to clean_latex: words, whitespace, comments, commands with
\* an option and an argument, math and brace characters.
FragPieces ==
    {<<"w">>, <<" ">>, <<NL>>, <<"%">>, <<BS>>, <<BS, "cmd">>,
     <<"[", "opt", "]">>, <<"{", "arg", "}">>, <<"$">>, <<"{">>, <<"}">>}

Frags == TextsOf(FragPieces, MaxFragPieces)

\* Fragments with environment blocks; every word occurs at most once, so that a
\* word of the output is known by its place in the input.
EnvPieces ==
    {BeginEnv("figure"), EndEnv("figure"), BeginEnvStar("table"), EndEnvStar("table"),
     <<"a">>, <<"b">>}

Words == {"a", "b"}

EnvFrags ==
    {f \in TextsOf(EnvPieces, MaxEnvPieces) :
        \A wd \in Words : Cardinality({k \in 1..Len(f) : f[k] = wd}) <= 1}

NoResults == [total_words |-> 0, preamble |-> <<>>, sections |-> <<>>]

---------------------------------------------------------------------------
(* clean_latex as a process: one action per statement, then a second call on *)
(* the text the first call returned                                         *)

CleanerIdle ==
    /\ sections = <<>> /\ i = 0 /\ intro = <<>> /\ results = NoResults /\ out = <<>>

InitClean ==
    /\ content \in Frags
    /\ text = content /\ first = <<>> /\ round = 1 /\ pc = "comments"
    /\ CleanerIdle

InitEnv ==
    /\ content \in EnvFrags
    /\ text = content /\ first = <<>> /\ round = 1 /\ pc = "comments"
    /\ CleanerIdle

CleanerRest == <<content, first, round, sections, i, intro, results, out>>

StripComments ==
    /\ pc = "comments"
    /\ text' = RemoveComments(text)
    /\ pc' = "environments"
    /\ UNCHANGED CleanerRest

StripEnvironments ==
    /\ pc = "environments"
    /\ text' = RemoveEnvironments(text)
    /\ pc' = "math"
    /\ UNCHANGED CleanerRest

StripMath ==
    /\ pc = "math"
    /\ text' = RemoveMath(text)
    /\ pc' = "commands_args"
    /\ UNCHANGED CleanerRest

StripCommandsWithArgs ==
    /\ pc = "commands_args"
    /\ text' = RemoveCommandsWithArgs(text)
    /\ pc' = "commands"
    /\ UNCHANGED CleanerRest

StripCommands ==
    /\ pc = "commands"
    /\ text' = RemoveCommands(text)
    /\ pc' = "braces"
    /\ UNCHANGED CleanerRest

StripBraces ==
    /\ pc = "braces"
    /\ text' = RemoveBraces(text)
    /\ pc' = "lines"
    /\ UNCHANGED CleanerRest

StripLineEnds ==
    /\ pc = "lines"
    /\ text' = StripLines(text)
    /\ pc' = "return"
    /\ UNCHANGED CleanerRest

Return ==
    /\ pc = "return"
    /\ pc' = "returned"
    /\ first' = IF round = 1 THEN text ELSE first
    /\ UNCHANGED <<content, text, round, sections, i, intro, results, out>>

\* clean_latex called on the text it returned.
CleanAgain ==
    /\ pc = "returned" /\ round = 1
    /\ content' = text
    /\ round' = 2
    /\ pc' = "comments"
    /\ UNCHANGED <<text, first, sections, i, intro, results, out>>

CleanNext ==
    \/ StripComments
    \/ StripEnvironments
    \/ StripMath
    \/ StripCommandsWithArgs
    \/ StripCommands
    \/ StripBraces
    \/ StripLineEnds
    \/ Return
    \/ CleanAgain

SpecClean == InitClean /\ [][CleanNext]_vars

\* One call of clean_latex.
EnvNext ==
    \/ StripComments
    \/ StripEnvironments
    \/ StripMath
    \/ StripCommandsWithArgs
    \/ StripCommands
    \/ StripBraces
    \/ StripLineEnds
    \/ Return

SpecEnv == InitEnv /\ [][EnvNext]_vars

---------------------------------------------------------------------------
(* parse_and_count as a process *)

SectionHeader == <<BS, "section", "{", "T", "}">>
StarredSectionHeader == <<BS, "section", "*", "{", "V", "}">>
SubsectionHeader == <<BS, "subsection", "{", "U", "}">>

DocPieces ==
    {SectionHeader, StarredSectionHeader, SubsectionHeader, <<"w">>, <<" ">>, <<NL>>,
     BeginEnv("tabular"), EndEnv("tabular")}

\* "\section{Intro} Hello world. \subsection{Background} Some background text here."
Scenario1 ==
    <<BS, "section", "{", "Intro", "}", " ", "Hello", " ", "world", ".", " ",
      BS, "subsection", "{", "Background", "}", " ", "Some", " ", "background", " ",
      "text", " ", "here", ".">>

Docs == TextsOf(DocPieces, MaxDocPieces) \cup {Scenario1}

Init ==
    /\ content \in Docs
    /\ pc = "start"
    /\ text = <<>> /\ first = <<>> /\ round = 1
    /\ sections = <<>> /\ i = 0 /\ intro = <<>> /\ results = NoResults /\ out = <<>>

\* Plain text mode: the count of the raw content is printed.
PlainText ==
    /\ pc = "start"
    /\ ~is_latex(content)
    /\ out' = <<<<"Total Word Count:", count_words(content)>>>>
    /\ pc' = "done"
    /\ UNCHANGED <<content, text, first, round, sections, i, intro, results>>

\* LaTeX mode: the document is split on the section headers.
SplitSections ==
    /\ pc = "start"
    /\ is_latex(content)
    /\ sections' = ReSplit(content, "section")
    /\ results' = NoResults
    /\ pc' = "preamble"
    /\ UNCHANGED <<content, text, first, round, i, intro, out>>

Preamble ==
    /\ pc = "preamble"
    /\ results' = WithPreamble(results, count_words(clean_latex(At(sections, 0))))
    /\ i' = 1
    /\ pc' = "loop"
    /\ UNCHANGED <<content, text, first, round, sections, intro, out>>

\* if not section_title_match: continue
SkipItem ==
    /\ pc = "loop"
    /\ i < Len(sections)
    /\ ReSearch(At(sections, i), "section") = 0
    /\ i' = i + 2
    /\ UNCHANGED <<content, text, first, round, sections, intro, results, out, pc>>

\* One pass of the section loop whose item holds a header: the title is the
\* header's, the content is the item after it.
ProcessSection ==
    /\ pc = "loop"
    /\ i < Len(sections)
    /\ ReSearch(At(sections, i), "section") > 0
    /\ LET section_title ==
               HeaderTitle(At(sections, i), ReSearch(At(sections, i), "section"),
                           "section")
           section_content == At(sections, i + 1)
       IN  /\ results' = WithSection(results, SectionData(section_title, section_content))
           /\ intro' = Append(intro, SectionIntroWordCount(section_content))
    /\ i' = i + 2
    /\ UNCHANGED <<content, text, first, round, sections, out, pc>>

PrintResults ==
    /\ pc = "loop"
    /\ i >= Len(sections)
    /\ out' = print_results(results)
    /\ pc' = "done"
    /\ UNCHANGED <<content, text, first, round, sections, i, intro, results>>

Next ==
    \/ PlainText
    \/ SplitSections
    \/ Preamble
    \/ SkipItem
    \/ ProcessSection
    \/ PrintResults

Spec == Init /\ [][Next]_vars

---------------------------------------------------------------------------
(* Properties of parse_and_count, of the behaviours of Spec *)

RECURSIVE SumWordCounts(_)
SumWordCounts(nodes) ==
    IF nodes = <<>> THEN 0 ELSE Head(nodes).word_count + SumWordCounts(Tail(nodes))

PreambleWordCount(res) ==
    IF DOMAIN res.preamble = {} THEN 0 ELSE res.preamble.word_count

\* The section headers re.split matched, and the title and the body (the text up
\* to the next header or the end of the document) of the k-th of them.
NumHeaders == (Len(sections) - 1) \div 3
TitleOf(k) == sections[3 * k]
BodyOf(k) == sections[3 * k + 1]

LatexDone == pc = "done" /\ is_latex(content)

C2_OneNodePerHeader ==
    LatexDone =>
        /\ Len(results.sections) = NumHeaders
        /\ \A k \in 1..NumHeaders : results.sections[k].title = TitleOf(k)

\* The text of a section body before its first subsection header.
IntroOf(body) == At(ReSplit(body, "subsection"), 0)

\* C3: the word count of a section is computed from its body: the text before the
\* first subsection header is cleaned and counted as the intro and the title
\* contributes no words; the document of scenario 1 gives intro words 2, section
\* total 6 and document total 6.
C3_SectionCountsItsBody ==
    LatexDone =>
        /\ \A k \in 1..Len(results.sections) :
              k <= NumHeaders => intro[k] = count_words(clean_latex(IntroOf(BodyOf(k))))
        /\ content = Scenario1 =>
              /\ Len(results.sections) = 1
              /\ intro = <<2>>
              /\ results.sections[1].word_count = 6
              /\ results.total_words = 6

\* The Subsection nodes a section body calls for: one per subsection header of
\* the body whose text, up to the next subsection header or the end of the body,
\* has a cleaned word count above zero.
RECURSIVE ExpectedSubsections(_, _)
ExpectedSubsections(parts, n) ==
    IF 3 * n + 1 > Len(parts) THEN <<>>
    ELSE (IF count_words(clean_latex(parts[3 * n + 1])) > 0
          THEN <<[title |-> parts[3 * n],
                  word_count |-> count_words(clean_latex(parts[3 * n + 1]))]>>
          ELSE <<>>)
         \o ExpectedSubsections(parts, n + 1)

\* C4: a subsection is in its section's child list, with its title and its count,
\* exactly when the cleaned text from its header to the next subsection header (or
\* the end of the section body) has more than zero words.
C4_SubsectionsListed ==
    LatexDone =>
        \A k \in 1..Len(results.sections) :
            k <= NumHeaders =>
                results.sections[k].subsections
                  = ExpectedSubsections(ReSplit(BodyOf(k), "subsection"), 1)

\* The number of whitespace-delimited non-empty tokens of s: the places where a
\* character that is not whitespace starts the text or follows whitespace.
TokenCount(s) ==
    Cardinality({p \in 1..Len(s) :
        s[p] \notin Whitespace /\ (p = 1 \/ s[p - 1] \in Whitespace)})

NoMarker(s) ==
    \A p \in 1..(Len(s) - 1) :
        ~(s[p] = BS /\ s[p + 1] \in {"section", "subsection", "documentclass"})

\* C5: an input with none of \section, \subsection, \documentclass is counted in
\* plain text mode: one line is printed, the number of whitespace-delimited
\* tokens of the raw input, with no cleaning and no breakdown.
C5_PlainTextCount ==
    (pc = "done" /\ NoMarker(content)) =>
        out = <<<<"Total Word Count:", TokenCount(content)>>>>

\* C5 witness: a finished run on a plain text of two tokens or more that holds
\* LaTeX syntax the Cleaner would strip.
C5_Witness ==
    /\ pc = "done"
    /\ NoMarker(content)
    /\ Contains(content, BeginEnv("tabular"))
    /\ TokenCount(content) >= 2

\* C10: a section header inside a tabular block still gets a Section node of its
\* own, and the fragments on either side of it are cleaned independently: in a
\* document without subsections every header has its node, whose count is that of
\* its cleaned body, and the preamble's count is that of the cleaned text before
\* the first header.
C10_SplitBeforeClean ==
    (/\ LatexDone
     /\ ~Contains(content, <<BS, "subsection">>)
     /\ \E p \in 1..Len(content) :
           /\ HeaderEnd(content, p, "section") > 0
           /\ \E b \in 1..(p - 1) : HasAt(content, b, BeginEnv("tabular"))
           /\ \E e \in p..Len(content) : HasAt(content, e, EndEnv("tabular")))
    =>  /\ Len(results.sections) = NumHeaders
        /\ PreambleWordCount(results) = count_words(clean_latex(At(sections, 0)))
        /\ \A k \in 1..Len(results.sections) :
              k <= NumHeaders =>
                  results.sections[k].word_count = count_words(clean_latex(BodyOf(k)))

---------------------------------------------------------------------------
(* Properties of clean_latex, of the behaviours of SpecClean and SpecEnv *)

\* C6: cleaning is idempotent: the second call returns the text the first call
\* returned.
C6_CleanIdempotent == (pc = "returned" /\ round = 2) => text = first

\* The text without its comments, a comment running from a % that no backslash
\* precedes to the end of its line.
UnescapedCommentEnd(s, p) ==
    IF s[p] = "%" /\ ~(p > 1 /\ s[p - 1] = BS)
    THEN LET j == FindFrom(s, <<NL>>, p) IN IF j = 0 THEN Len(s) + 1 ELSE j
    ELSE 0

WithoutUnescapedComments(s) == ReSub(s, [p \in 1..Len(s) |-> UnescapedCommentEnd(s, p)])

\* C7: comment stripping removes everything from each unescaped % to the end of
\* its line and nothing else; \% starts no comment and the text after it stays.
C7_EscapedPercentKept ==
    (pc = "environments" /\ round = 1) => text = WithoutUnescapedComments(content)

Command == <<BS, "cmd">>
Option == <<"[", "opt", "]">>
Argument == <<"{", "arg", "}">>
CommandForms == {Command \o Option \o Argument, Command \o Option, Command \o Argument}

\* The fragments made of one command form among plain words and whitespace, with
\* what is left of them without the form.
PlainLexemes == {"w", " ", NL}
FormAt(s, p, f) ==
    /\ HasAt(s, p, f)
    /\ \A k \in 1..Len(s) : (k < p \/ k >= p + Len(f)) => s[k] \in PlainLexemes
Around(s, p, f) == Slice(s, 1, p - 1) \o Slice(s, p + Len(f), Len(s))

\* C8: of a fragment \cmd[opt]{arg}, \cmd[opt] or \cmd{arg} none of cmd, opt and
\* arg remains in the cleaned text and none adds to the word count.
C8_CommandWithOptionRemoved ==
    (pc = "returned" /\ round = 1) =>
        \A f \in CommandForms : \A p \in 1..Len(content) :
            FormAt(content, p, f) =>
                /\ Range(text) \cap {"cmd", "opt", "arg"} = {}
                /\ count_words(text) = count_words(Around(content, p, f))

\* The kinds of environment block, in the order clean_latex removes them: each
\* name of environments_to_remove plain, then starred.
Kinds == (1..Len(environments_to_remove)) \X {FALSE, TRUE}
KindOrder(kd) == 2 * kd[1] + (IF kd[2] THEN 1 ELSE 0)
BeginOf(kd) ==
    IF kd[2] THEN BeginEnvStar(environments_to_remove[kd[1]])
    ELSE BeginEnv(environments_to_remove[kd[1]])
EndOf(kd) ==
    IF kd[2] THEN EndEnvStar(environments_to_remove[kd[1]])
    ELSE EndEnv(environments_to_remove[kd[1]])

\* The words of s that lie between a \begin of kind kd and the next \end of that
\* kind after it.
WordsInside(s, kd) ==
    {s[q] : q \in {q \in 1..Len(s) :
        /\ s[q] \in Words
        /\ \E p \in 1..q :
              /\ HasAt(s, p, BeginOf(kd))
              /\ FindFrom(s, EndOf(kd), p + Len(BeginOf(kd))) > q}}

\* No \begin of a kind that is removed before kd occurs in s.
NoEarlierBegin(s, kd) ==
    \A e \in Kinds :
        KindOrder(e) < KindOrder(kd) => ~Contains(s, BeginOf(e))

=============================================================================
